---- MODULE Spec2Model ----
(***************************************************************************)
(* A model of nivacloud_logging.log_utils: the LogContext store (a         *)
(* threading.local dictionary plus a process-wide default dictionary), the *)
(* two context-enriching stream handlers with their renderers,             *)
(* setup_logging with its SIGUSR1/SIGUSR2 log-level handler, the           *)
(* log_context / auto_context / log_exceptions wrappers, and the request   *)
(* tracing of flask_trace, starlette_trace, requests_trace and             *)
(* aiohttp_trace.                                                          *)
(*                                                                         *)
(* Python dictionaries are functions whose DOMAIN is the set of keys that  *)
(* are present.  An execution unit is a thread or an asyncio task; a task  *)
(* runs on the thread of its event loop and therefore shares that thread's *)
(* threading.local dictionary.                                             *)
(***************************************************************************)
EXTENDS Integers, Sequences, FiniteSets, TLC

\* ------------------------------------------------------------------ bounds
\* Scopes that may be open at one time, over all execution units.
MaxOpen == 2
\* Calls of setup_logging in one run.
MaxSetups == 2

\* --------------------------------------------------------------- constants
\* logging.DEBUG, logging.INFO and logging.ERROR.
DEBUG == 10
INFO == 20
ERROR == 40

\* The severities of the logging calls, and the min_level arguments of the
\* setup_logging calls.
Levels == {DEBUG, INFO, ERROR}
MinLevels == {INFO, ERROR}

LevelName(levelno) ==
    CASE levelno = DEBUG -> "DEBUG"
      [] levelno = INFO -> "INFO"
      [] levelno = ERROR -> "ERROR"

\* Python's None, as a context value and as the result of a lookup that
\* finds nothing.
None == "None"

\* Execution units and the threads they run on.  Unit 1 is the main thread's
\* code; unit 2 is started later, as a thread of its own or as a task of the
\* main thread's event loop.  Thread 0 means "not started".
Units == {1, 2}
Threads == {1, 2}

\* Context keys.  lineno is an attribute every LogRecord has; timestamp is a
\* field the structured formatter writes itself.
Keys ==
    { "trace_id", "user_id", "span_id", "foo", "lineno", "timestamp", "data",
      "host", "user" }
\* The order in which a scope's keys are walked (kwargs order).
KeyOrder ==
    << "trace_id", "user_id", "span_id", "foo", "lineno", "timestamp", "data",
       "host", "user" >>

\* ------------------------------------------------------------ dictionaries
EmptyDict == [k \in {} |-> None]

D1(k, v) == [x \in {k} |-> v]

D2(k1, v1, k2, v2) == [x \in {k1, k2} |-> IF x = k1 THEN v1 ELSE v2]

\* {**a, **b}
Merge(a, b) ==
    [x \in DOMAIN a \cup DOMAIN b |-> IF x \in DOMAIN b THEN b[x] ELSE a[x]]

\* d.get(k, dflt)
DictGet(d, k, dflt) == IF k \in DOMAIN d THEN d[k] ELSE dflt

\* setattr(obj, k, v) on an object whose __dict__ is d
SetAttr(d, k, v) == [x \in DOMAIN d \cup {k} |-> IF x = k THEN v ELSE d[x]]

\* delattr(obj, k), defined when the attribute exists
DelAttr(d, k) == [x \in DOMAIN d \ {k} |-> d[x]]

\* The keyword arguments of the LogContext(...) calls of the runs.
ScopeInputs ==
    { D2("trace_id", "a", "foo", "b"),
      D1("trace_id", "b"),
      D1("trace_id", None),
      D1("foo", "a"),
      D2("lineno", "a", "timestamp", "a") }

\* The extra= mappings of the logging calls.  logging itself refuses an
\* extra key that names a LogRecord attribute.
ExtrasInputs ==
    { EmptyDict, D1("foo", "x"), D1("_hidden", "x") }

\* The (key, value) pairs given to LogContext.set_default.
DefaultInputs == { <<"trace_id", "d">> }

VARIABLES
    ctx,            \* LogContext.__context: per thread, its __dict__
    defaults,       \* LogContext.__default_context
    stack,          \* per unit, the LogContext objects it has entered
    unitThread,     \* per unit, the thread it runs on (0: not started)
    stream_handlers,    \* the _LogContextHandler objects created so far
    previous_handlers,  \* per setup call, the signal handlers it captured
    rootHandlers,   \* logging.root.handlers (0: a handler of another class)
    rootLevel,      \* logging.root.level
    child,          \* a named logger: its propagate flag and handlers
    sigHandler,     \* the process's handlers of SIGUSR1 and SIGUSR2
    excepthook,     \* sys.excepthook
    last            \* what the latest step produced (<<>>: nothing)

vars == <<ctx, defaults, stack, unitThread, stream_handlers, previous_handlers,
          rootHandlers, rootLevel, child, sigHandler, excepthook, last>>

ctxVars == <<ctx, defaults, stack, unitThread>>
logVars == <<stream_handlers, previous_handlers, rootHandlers, rootLevel,
             child, sigHandler, excepthook>>

\* ------------------------------------------------------------- LogContext
\* Faulty variant: __context as one plain object shared by every thread
SharedObject(t) == 1

\* LogContext.__context = threading.local(): the dictionary that code running
\* on thread t reaches through it is the thread's own.
ThreadLocal(t) == t

\* getattr(self.__context, key, None)
GetAttrOrNone(d, k) == DictGet(d, k, None)

\* LogContext._enter_context: previous_values and the thread's new __dict__.
PreviousValues(d, cv) == [k \in DOMAIN cv |-> GetAttrOrNone(d, k)]

\* Faulty variant: the thread's __dict__ replaced by the new bindings
EnterContextReplace(d, cv) == cv

EnterContext(d, cv) == Merge(d, cv)

\* LogContext._exit_context over the keys ks (a sequence): the thread's
\* __dict__ afterwards, and whether delattr raised AttributeError, which
\* ends the loop.
RECURSIVE ExitContext(_, _, _)
ExitContext(d, pv, ks) ==
    IF ks = <<>> THEN [dict |-> d, raised |-> FALSE]
    ELSE LET k == Head(ks) IN
         IF k \notin DOMAIN pv THEN ExitContext(d, pv, Tail(ks))
         ELSE IF pv[k] = None
              THEN IF k \in DOMAIN d
                   THEN ExitContext(DelAttr(d, k), pv, Tail(ks))
                   ELSE [dict |-> d, raised |-> TRUE]
              ELSE ExitContext(SetAttr(d, k, pv[k]), pv, Tail(ks))

\* Faulty variant: {**context, **defaults}: a default shadows a scoped binding
GetContextAllDefaultsWin(t) == Merge(ctx[ThreadLocal(t)], defaults)

\* LogContext.getcontext() and LogContext.getcontext(key), called on thread t.
GetContextAll(t) == Merge(defaults, ctx[ThreadLocal(t)])

GetContextKey(t, key) ==
    DictGet(ctx[ThreadLocal(t)], key, DictGet(defaults, key, None))

\* Faulty variant: the calling thread's own __dict__ handed out
GetContextObjectLive(t) == [alias |-> "thread", value |-> ctx[ThreadLocal(t)]]

\* The object LogContext.getcontext() returns on thread t: {**defaults,
\* **__dict__} builds a new dictionary, which no later call shares.
GetContextObject(t) == [alias |-> "new", value |-> GetContextAll(t)]

TotalOpen == Len(stack[1]) + Len(stack[2])

\* with LogContext(**cv): / async with LogContext(**cv):  -- entry of a new
\* LogContext object.  A stack entry holds the object's context_values (cv)
\* and previous_values (pv), which object it is (obj: the unit and the depth
\* at which the object was first entered), whether the object has been entered
\* again while it was open, and the thread's bindings of the keys just before this entry.
EnterScope(u, cv) ==
    /\ unitThread[u] # 0
    /\ TotalOpen < MaxOpen
    /\ LET t == ThreadLocal(unitThread[u])
           scope == [cv |-> cv,
                     pv |-> PreviousValues(ctx[t], cv),
                     obj |-> <<u, Len(stack[u]) + 1>>,
                     reentered |-> FALSE,
                     before |-> [k \in DOMAIN cv \cap DOMAIN ctx[t] |-> ctx[t][k]]]
       IN /\ ctx' = [ctx EXCEPT ![t] = EnterContext(@, cv)]
          /\ stack' = [stack EXCEPT ![u] = Append(@, scope)]
    /\ UNCHANGED <<defaults, unitThread>>
    /\ UNCHANGED logVars

Enter(u, cv) ==
    /\ EnterScope(u, cv)
    /\ last' = <<>>

\* with c: ... with c: -- entry of the LogContext object c that unit u has
\* already entered as its i-th open scope.  _enter_context assigns
\* self.previous_values anew, on the one object that both entries are.
Reenter(u, i) ==
    /\ i \in 1..Len(stack[u])
    /\ TotalOpen < MaxOpen
    /\ LET t == ThreadLocal(unitThread[u])
           c == stack[u][i]
           pv == PreviousValues(ctx[t], c.cv)
           again == [cv |-> c.cv,
                     pv |-> pv,
                     obj |-> c.obj,
                     reentered |-> TRUE,
                     before |-> [k \in DOMAIN c.cv \cap DOMAIN ctx[t] |-> ctx[t][k]]]
           same == [j \in 1..Len(stack[u]) |->
                      IF stack[u][j].obj = c.obj
                      THEN [stack[u][j] EXCEPT !.pv = pv, !.reentered = TRUE]
                      ELSE stack[u][j]]
       IN /\ ctx' = [ctx EXCEPT ![t] = EnterContext(@, c.cv)]
          /\ stack' = [stack EXCEPT ![u] = Append(same, again)]
    /\ last' = <<>>
    /\ UNCHANGED <<defaults, unitThread>>
    /\ UNCHANGED logVars

\* The end of the with block: __exit__ / __aexit__, called with the exception
\* of the body (exc) or with none; it reads neither and returns None, so an
\* exception of the body goes on to the caller.
Exit(u, exc) ==
    /\ stack[u] # <<>>
    /\ LET t == ThreadLocal(unitThread[u])
           scope == stack[u][Len(stack[u])]
           r == ExitContext(ctx[t], scope.pv, KeyOrder)
       IN /\ ctx' = [ctx EXCEPT ![t] = r.dict]
          /\ stack' = [stack EXCEPT ![u] = SubSeq(@, 1, Len(@) - 1)]
          /\ last' = << [op |-> "exit", unit |-> u, exc |-> exc,
                         keys |-> DOMAIN scope.cv, before |-> scope.before,
                         obj |-> scope.obj, reentered |-> scope.reentered,
                         raised |-> r.raised] >>
    /\ UNCHANGED <<defaults, unitThread>>
    /\ UNCHANGED logVars

\* LogContext.set_default(key, value)
SetDefault(key, value) ==
    /\ defaults' = SetAttr(defaults, key, value)
    /\ last' = <<>>
    /\ UNCHANGED <<ctx, stack, unitThread>>
    /\ UNCHANGED logVars

\* LogContext.reset_defaults()
ResetDefaults ==
    /\ defaults # EmptyDict
    /\ defaults' = EmptyDict
    /\ last' = <<>>
    /\ UNCHANGED <<ctx, stack, unitThread>>
    /\ UNCHANGED logVars

\* threading.Thread(target=...).start(): the new thread's threading.local
\* dictionary is its own, and empty.
StartThread ==
    /\ unitThread[2] = 0
    /\ unitThread' = [unitThread EXCEPT ![2] = 2]
    /\ last' = <<>>
    /\ UNCHANGED <<ctx, defaults, stack>>
    /\ UNCHANGED logVars

\* asyncio.create_task(...) on the main thread's loop: the task runs on the
\* thread of the loop.
CreateTask ==
    /\ unitThread[2] = 0
    /\ unitThread' = [unitThread EXCEPT ![2] = unitThread[1]]
    /\ last' = <<>>
    /\ UNCHANGED <<ctx, defaults, stack>>
    /\ UNCHANGED logVars

\* LogContext.getcontext(key) by unit u, key None for the whole context.
GetContext(u, key) ==
    /\ unitThread[u] # 0
    /\ last' = << [op |-> "getcontext", unit |-> u, key |-> key,
                   result |-> IF key = None THEN GetContextObject(unitThread[u])
                              ELSE [alias |-> "value",
                                    value |-> GetContextKey(unitThread[u], key)]] >>
    /\ UNCHANGED ctxVars
    /\ UNCHANGED logVars

\* The caller of LogContext.getcontext() stores v under k in the mapping it
\* was given and calls LogContext.getcontext() again: first is the mapping as
\* it was returned, second the result of the second call.
MutateResult(u, k, v) ==
    /\ Len(last) = 1 /\ last[1].op = "getcontext"
    /\ last[1].unit = u /\ last[1].key = None
    /\ LET t == ThreadLocal(unitThread[u])
           r == last[1].result
       IN /\ ctx' = IF r.alias = "thread"
                     THEN [ctx EXCEPT ![t] = SetAttr(r.value, k, v)]
                     ELSE ctx
          /\ last' = << [op |-> "mutated", unit |-> u, key |-> k,
                         first |-> r.value,
                         second |-> Merge(defaults, ctx'[t])] >>
    /\ UNCHANGED <<defaults, stack, unitThread>>
    /\ UNCHANGED logVars

\* ------------------------------------------------------------------ values
\* The values bound in scopes and passed as extras are named by strings.  A
\* name in DOMAIN PyObjects stands for the Python object given there; None is
\* None; any other name is the str with that content.
PyStr(s) == [t |-> "str", s |-> s]
PyInt(n) == [t |-> "int", n |-> n]
PyNone == [t |-> "none"]
\* datetime.date / datetime.datetime / datetime.time, with its isoformat()
PyDateTime(iso) == [t |-> "datetime", iso |-> iso]
PyComplex(re, im) == [t |-> "complex", real |-> re, imag |-> im]
\* a class or an instance of a class, with its str()
PyInstance(str) == [t |-> "instance", str |-> str]
\* a list or a tuple
PyList(items) == [t |-> "list", items |-> items]
\* a dict, as its (key, value) pairs in insertion order
PyDict(items) == [t |-> "dict", items |-> items]
\* the container that holds this element, once more
PyItself == [t |-> "itself"]

PyObjects ==
    [o \in {"o_time", "o_complex", "o_instance", "o_thing", "o_intkeys",
            "o_mixed", "o_tuplekey", "o_cycle"} |->
        CASE o = "o_time" -> PyDateTime("2019-12-24T12:34:56")
          [] o = "o_complex" -> PyComplex(12, 45)
          [] o = "o_instance" -> PyInstance("<Sample object>")
          [] o = "o_thing" ->
                PyDict(<< <<PyStr("time"), PyDateTime("2019-12-24T12:34:56")>>,
                          <<PyStr("tupled"),
                            PyList(<< PyStr("foo"),
                                      PyDict(<< <<PyStr("complex"), PyComplex(12, 45)>> >>),
                                      PyInt(1) >>)>>,
                          <<PyStr("instance"), PyInstance("<Sample object>")>> >>)
          [] o = "o_intkeys" ->
                PyDict(<< <<PyInt(2), PyStr("x")>>, <<PyInt(1), PyStr("y")>> >>)
          [] o = "o_mixed" ->
                PyDict(<< <<PyInt(1), PyStr("x")>>, <<PyStr("k"), PyStr("y")>> >>)
          [] o = "o_tuplekey" ->
                PyDict(<< <<PyList(<<PyInt(1), PyInt(2)>>), PyStr("x")>> >>)
          [] o = "o_cycle" -> PyList(<< PyItself >>)]

\* JSON texts, as their syntax trees; the members of an object are in the
\* order in which they are written.
JStr(s) == [t |-> "string", s |-> s]
JNum(n) == [t |-> "number", n |-> n]
JNull == [t |-> "null"]
JArray(items) == [t |-> "array", items |-> items]
JObject(members) == [t |-> "object", members |-> members]

\* Faulty variant: str(o) for every object
JsonDefaultStr(o) ==
    CASE o.t = "datetime" -> PyStr(o.iso)
      [] o.t = "complex" -> PyStr("(12+45j)")
      [] OTHER -> PyStr(o.str)

\* json_default(o)
json_default(o) ==
    CASE o.t = "datetime" -> PyStr(o.iso)
      [] o.t = "complex" ->
            PyDict(<< <<PyStr("real"), PyInt(o.real)>>,
                      <<PyStr("imag"), PyInt(o.imag)>> >>)
      [] OTHER -> PyStr(o.str)

\* The order of the strings that occur as keys.
StrOrder ==
    << "1", "2", "complex", "imag", "instance", "k", "real", "time", "tupled" >>
StrRank(s) == CHOOSE i \in 1..Len(StrOrder) : StrOrder[i] = s

\* a < b for two keys of one type (tuples compare by their first elements)
RECURSIVE KeyLess(_, _)
KeyLess(a, b) ==
    CASE a.t = "str" -> StrRank(a.s) < StrRank(b.s)
      [] a.t = "int" -> a.n < b.n
      [] OTHER -> KeyLess(a.items[1], b.items[1])

\* sorted(dct.items()) raises TypeError unless the keys compare
Sortable(items) ==
    \A i, j \in 1..Len(items) : items[i][1].t = items[j][1].t

RECURSIVE Insert(_, _)
Insert(sorted, item) ==
    IF sorted = <<>> THEN <<item>>
    ELSE IF KeyLess(item[1], Head(sorted)[1]) THEN <<item>> \o sorted
    ELSE <<Head(sorted)>> \o Insert(Tail(sorted), item)

RECURSIVE SortItems(_)
SortItems(items) ==
    IF items = <<>> THEN <<>>
    ELSE Insert(SortItems(SubSeq(items, 1, Len(items) - 1)), items[Len(items)])

\* json.dumps(o, default=json_default, sort_keys=...): the text, or the error
\* raised (TypeError for a key that is no str, int, float, bool or None and for
\* keys that do not compare under sort_keys; ValueError for a circular
\* reference).
RECURSIVE Dumps(_, _)
RECURSIVE DumpsItems(_, _)
RECURSIVE DumpsMembers(_, _)
Dumps(o, sort_keys) ==
    CASE o.t = "str" -> [err |-> "", json |-> JStr(o.s)]
      [] o.t = "int" -> [err |-> "", json |-> JNum(o.n)]
      [] o.t = "none" -> [err |-> "", json |-> JNull]
      [] o.t = "itself" -> [err |-> "ValueError", json |-> JNull]
      [] o.t = "list" ->
            LET r == DumpsItems(o.items, sort_keys)
            IN [err |-> r.err, json |-> JArray(r.json)]
      [] o.t = "dict" ->
            IF sort_keys /\ ~Sortable(o.items)
            THEN [err |-> "TypeError", json |-> JNull]
            ELSE LET r == DumpsMembers(IF sort_keys THEN SortItems(o.items)
                                       ELSE o.items, sort_keys)
                 IN [err |-> r.err, json |-> JObject(r.json)]
      [] OTHER -> Dumps(json_default(o), sort_keys)

DumpsItems(items, sort_keys) ==
    IF items = <<>> THEN [err |-> "", json |-> <<>>]
    ELSE LET first == Dumps(Head(items), sort_keys)
             rest == DumpsItems(Tail(items), sort_keys)
         IN IF first.err # "" THEN [err |-> first.err, json |-> <<>>]
            ELSE [err |-> rest.err, json |-> <<first.json>> \o rest.json]

DumpsMembers(items, sort_keys) ==
    IF items = <<>> THEN [err |-> "", json |-> <<>>]
    ELSE LET key == Head(items)[1]
             first == Dumps(Head(items)[2], sort_keys)
             rest == DumpsMembers(Tail(items), sort_keys)
         IN IF key.t \notin {"str", "int", "none"}
            THEN [err |-> "TypeError", json |-> <<>>]
            ELSE IF first.err # "" THEN [err |-> first.err, json |-> <<>>]
            ELSE [err |-> rest.err,
                  json |-> << << CASE key.t = "str" -> key.s
                                   [] key.t = "int" -> ToString(key.n)
                                   [] OTHER -> "null",
                                 first.json >> >> \o rest.json]

\* The text written for value v by json.dumps with the given sort_keys.  A
\* str is written with its content between quotes and None as null; the
\* field of such a value is kept under the value's own name.
FieldOf(v, sort_keys) ==
    IF v \in DOMAIN PyObjects THEN Dumps(PyObjects[v], sort_keys)
    ELSE [err |-> "", json |-> v]

\* plain_repr(o)
plain_repr(o) == FieldOf(o, TRUE)

\* ---------------------------------------------------------------- records
\* _PlaintextLogContextHandler.RESERVED_ATTRS (the same names are the
\* reserved attributes of the JSON formatter)
RESERVED_ATTRS ==
    { "args", "asctime", "created", "exc_info", "exc_text", "filename",
      "funcName", "levelname", "levelno", "lineno", "module", "msecs",
      "message", "msg", "name", "pathname", "process", "processName",
      "relativeCreated", "stack_info", "thread", "threadName" }

\* key.startswith("_"), over the names the runs use
StartsWithUnderscore(key) == key \in {"_hidden"}

\* The fields of a rendered line that belong to the event itself.
NativeOut ==
    {"message", "severity", "filename", "lineno", "timestamp", "thread", "pid"}

\* Restriction of a dictionary to the keys in S.
Restrict(d, S) == [x \in DOMAIN d \cap S |-> d[x]]

\* Logger.makeRecord: the attributes of the new LogRecord (the event's own
\* message M0, file F0, line L0 and creation time T0), with the extras added.
MakeRecord(levelno, extras) ==
    LET own == [x \in {"msg", "levelname", "filename", "lineno", "created",
                        "thread", "process"} |->
                   CASE x = "msg" -> "M0"
                     [] x = "levelname" -> LevelName(levelno)
                     [] x = "filename" -> "F0"
                     [] x = "lineno" -> "L0"
                     [] x = "created" -> "T0"
                     [] x = "thread" -> "TID"
                     [] x = "process" -> "PID"]
    IN Merge(own, extras)

\* Faulty variant: setattr without the hasattr test
StructuredEnrichClobber(rec, context) == Merge(rec, context)

\* _StructuredLogContextHandler.handle: the record's attributes after the
\* context was set on it.
StructuredEnrich(rec, context) ==
    [x \in DOMAIN rec \cup DOMAIN context |->
        IF x \in DOMAIN rec THEN rec[x] ELSE context[x]]

\* StackdriverJsonFormatter.format: the JSON object of the record.
JsonFormat(rec) ==
    LET withMessage == SetAttr(rec, "message", rec["msg"])
        required == [x \in {"levelname", "message", "filename", "lineno"} |->
                        withMessage[x]]
        extra == Restrict(withMessage,
                     {x \in DOMAIN withMessage :
                         x \notin RESERVED_ATTRS /\ ~StartsWithUnderscore(x)})
        merged == Merge(required, extra)
        stamped == SetAttr(merged, "timestamp", withMessage["created"])
        severity == SetAttr(stamped, "severity", stamped["levelname"])
        ident == SetAttr(SetAttr(severity, "thread", "TID"), "pid", "PID")
    IN DelAttr(ident, "levelname")

\* Faulty variant: the record's extras first, the whole context written over them
PlaintextContextOverExtras(rec, context) ==
    Merge(Restrict(rec, {x \in DOMAIN rec :
                            /\ x \notin RESERVED_ATTRS
                            /\ ~StartsWithUnderscore(x)
                            /\ x # "context"}),
          Restrict(context, {x \in DOMAIN context : x \notin RESERVED_ATTRS}))

\* _PlaintextLogContextHandler.handle: the dictionary behind the bracketed
\* suffix of the line.
PlaintextContext(rec, context) ==
    LET fromContext == Restrict(context, {x \in DOMAIN context : x \notin DOMAIN rec})
        fromRecord == Restrict(rec,
                          {x \in DOMAIN rec :
                              /\ x \notin RESERVED_ATTRS
                              /\ ~StartsWithUnderscore(x)
                              /\ x # "context"})
    IN Merge(fromContext, fromRecord)

\* What one _LogContextHandler of the given kind does with the record: the
\* line it writes (none if the record could not be written), the record's
\* attributes afterwards and whether handle() raised.  The plaintext handler
\* calls plain_repr in handle(), so an error of json.dumps goes to the caller
\* of the logging function; the JSON formatter runs inside
\* StreamHandler.emit, which passes an error to Handler.handleError and
\* writes nothing.
Render(kind, rec, context) ==
    IF kind = "structured"
    THEN LET enriched == StructuredEnrich(rec, context)
             json == JsonFormat(enriched)
             fields == [k \in DOMAIN json \ NativeOut |-> FieldOf(json[k], FALSE)]
             failed == \E k \in DOMAIN fields : fields[k].err # ""
         IN [lines |-> IF failed THEN <<>>
                       ELSE << [mode |-> "structured",
                                native |-> [f \in NativeOut |-> json[f]],
                                extra |-> [k \in DOMAIN fields |-> fields[k].json],
                                exc_info |-> DictGet(rec, "exc_info", None)] >>,
             rec |-> SetAttr(enriched, "message", enriched["msg"]),
             raised |-> FALSE]
    ELSE LET shown == PlaintextContext(rec, context)
             fields == [k \in DOMAIN shown |-> plain_repr(shown[k])]
             failed == \E k \in DOMAIN fields : fields[k].err # ""
         IN [lines |-> IF failed THEN <<>>
                       ELSE << [mode |-> "plaintext",
                                native |-> [f \in NativeOut |->
                                      CASE f = "message" -> rec["msg"]
                                        [] f = "severity" -> rec["levelname"]
                                        [] f = "filename" -> rec["filename"]
                                        [] f = "lineno" -> rec["lineno"]
                                        [] f = "timestamp" -> rec["created"]
                                        [] f = "thread" -> rec["thread"]
                                        [] f = "pid" -> rec["process"]],
                                extra |-> [k \in DOMAIN fields |-> fields[k].json],
                                exc_info |-> DictGet(rec, "exc_info", None)] >>,
             rec |-> IF failed THEN rec
                     ELSE SetAttr(SetAttr(SetAttr(rec, "context", "suffix"),
                                          "message", rec["msg"]),
                                  "asctime", rec["created"]),
             raised |-> failed]

\* Logger.callHandlers over the handler list hs: the lines written by the
\* _LogContextHandlers among them whose level admits the record, and whether
\* one of them raised (the handlers after it are not called then).
RECURSIVE CallHandlers(_, _, _, _)
CallHandlers(hs, levelno, rec, context) ==
    IF hs = <<>> THEN [lines |-> <<>>, raised |-> FALSE]
    ELSE LET h == Head(hs) IN
         IF h > 0 /\ levelno >= stream_handlers[h].level
         THEN LET r == Render(stream_handlers[h].kind, rec, context)
                  rest == CallHandlers(Tail(hs), levelno, r.rec, context)
              IN IF r.raised THEN [lines |-> <<>>, raised |-> TRUE]
                 ELSE [lines |-> r.lines \o rest.lines, raised |-> rest.raised]
         ELSE CallHandlers(Tail(hs), levelno, rec, context)

\* Faulty variant: a record that reaches no handler of the root logger
HandlersReachedNone(logger) == <<>>

\* The handlers a record logged on the given logger reaches.
HandlersReached(logger) ==
    IF logger = "root" THEN rootHandlers
    ELSE IF child.propagate THEN rootHandlers ELSE <<>>

\* Logger.handle of the record rec on the given logger, with the given
\* result of LogContext.getcontext() at the time the handlers run.
HandleWith(logger, levelno, rec, context) ==
    IF levelno >= rootLevel
    THEN CallHandlers(HandlersReached(logger), levelno, rec, context)
    ELSE [lines |-> <<>>, raised |-> FALSE]

\* Logger.handle of the record rec, logged by unit u on the given logger.
Handle(u, logger, levelno, rec) ==
    HandleWith(logger, levelno, rec, GetContextAll(unitThread[u]))

\* logging.getLogger(logger).log(levelno, "M0", extra=extras) by unit u
Emit(u, logger, levelno, extras) ==
    /\ unitThread[u] # 0
    /\ LET r == Handle(u, logger, levelno, MakeRecord(levelno, extras))
       IN last' = << [op |-> "log", unit |-> u, logger |-> logger,
                      levelno |-> levelno, extras |-> extras,
                      lines |-> r.lines, raised |-> r.raised] >>
    /\ UNCHANGED ctxVars
    /\ UNCHANGED logVars

\* The record of logging.exception(msg, exc_info=(...)): level ERROR, with the
\* exception and its traceback in exc_info.
ExceptionRecord(msg) ==
    SetAttr(SetAttr(MakeRecord(ERROR, EmptyDict), "msg", msg),
            "exc_info", "traceback")

\* logging.exception(msg, exc_info=(...)) by unit u, on the root logger
LogException(u, msg) == Handle(u, "root", ERROR, ExceptionRecord(msg))

\* An exception that no frame of the main thread catches: the interpreter
\* calls sys.excepthook with it.  _global_exception_handler logs it; the
\* interpreter's own hook writes the traceback to stderr and logs nothing.
Uncaught ==
    /\ LET r == IF excepthook = "_global_exception_handler"
                THEN LogException(1, "Uncaught exception E0")
                ELSE [lines |-> <<>>, raised |-> FALSE]
       IN last' = << [op |-> "uncaught", hook |-> excepthook,
                      lines |-> r.lines, raised |-> r.raised] >>
    /\ UNCHANGED ctxVars
    /\ UNCHANGED logVars

\* ------------------------------------------------- decorators and wrappers
\* The wrapped functions of the runs:
\*   @auto_context("host", "user")  def login(host, user=None, password="pw")
\*   @auto_context()                def lookup(self, host)
\*   @log_context(user="t")         def tagged()
Required == "<required>"

Signature(f) ==
    CASE f = "login" -> << <<"host", Required>>, <<"user", None>>,
                           <<"password", "pw">> >>
      [] f = "lookup" -> << <<"self", Required>>, <<"host", Required>> >>
      [] f = "tagged" -> <<>>

context_args(f) == IF f = "login" THEN {"host", "user"} ELSE {}

Parameters(f) == {Signature(f)[i][1] : i \in 1..Len(Signature(f))}

\* auto_context: included_args
included_args(f) ==
    LET all == Parameters(f) \ {"self"}
    IN IF context_args(f) # {} THEN all \cap context_args(f) ELSE all

\* signature.bind(*args, **kwargs) followed by apply_defaults()
BoundArguments(f, passed) ==
    [p \in Parameters(f) |->
        IF p \in DOMAIN passed THEN passed[p]
        ELSE LET i == CHOOSE i \in 1..Len(Signature(f)) : Signature(f)[i][1] = p
             IN Signature(f)[i][2]]

\* auto_context: log_params
log_params(f, passed) == Restrict(BoundArguments(f, passed), included_args(f))

\* The keyword arguments of the LogContext that the wrapper of f opens.
WrapperScope(f, passed) ==
    IF f = "tagged" THEN D1("user", "t") ELSE log_params(f, passed)

\* A call of the wrapped function f by unit u, up to the start of its body:
\* the wrapper enters LogContext(**log_params) (auto_context) or
\* LogContext(**ctxargs) (log_context).  The return, or the exception, of the
\* body ends the with block: Exit.
Call(u, f, passed) ==
    /\ EnterScope(u, WrapperScope(f, passed))
    /\ last' = << [op |-> "call", unit |-> u, f |-> f, passed |-> passed] >>

\* Faulty variant: __exit__ that returns True whatever suppress was
ExitReturnsTrue(suppress) == TRUE

\* log_exceptions.__exit__: its return value
ExitReturns(suppress) == suppress

\* The end of a "with log_exceptions(suppress=...)" block of unit u whose body
\* raised (exc) or did not: __exit__ logs the exception, and the with
\* statement swallows it if __exit__ returned a true value.
LogExceptionsExit(u, suppress, exc) ==
    /\ unitThread[u] # 0
    /\ LET r == IF exc THEN LogException(u, "E0")
                ELSE [lines |-> <<>>, raised |-> FALSE]
       IN last' = << [op |-> "log_exceptions", unit |-> u, exc |-> exc,
                      suppress |-> suppress, lines |-> r.lines,
                      propagates |-> r.raised \/ (exc /\ ~ExitReturns(suppress))] >>
    /\ UNCHANGED ctxVars
    /\ UNCHANGED logVars

\* ------------------------------------------------------- request tracing
\* generate_trace_id(): a random number of 128 bits in hexadecimal; the runs
\* draw it from two values.
GeneratedIds == {"g1", "g2"}

\* bool(v), for None and the strings
Truthy(v) == v \notin {None, ""}

\* headers.get(name) / environ.get("HTTP_...")
HeaderGet(headers, name) == DictGet(headers, name, None)

\* The dictionary without the keys whose value is None
\* ({k: v for k, v in contextvars.items() if v is not None}).
WithValues(d) == Restrict(d, {k \in DOMAIN d : d[k] # None})

TraceKeys == {"trace_id", "user_id", "span_id"}

\* TracingMiddleware.__call__: contextvars_with_values
FlaskContext(headers, gen) ==
    WithValues([k \in TraceKeys |->
        CASE k = "trace_id" -> HeaderGet(headers, "trace-id")
          [] k = "user_id" -> HeaderGet(headers, "user-id")
          [] k = "span_id" -> IF Truthy(HeaderGet(headers, "span-id"))
                              THEN HeaderGet(headers, "span-id") ELSE gen])

\* StarletteTracingMiddleware.dispatch: contextvars_with_values
StarletteContext(headers, gen1, gen2) ==
    WithValues([k \in TraceKeys |->
        CASE k = "trace_id" -> IF Truthy(HeaderGet(headers, "trace-id"))
                               THEN HeaderGet(headers, "trace-id") ELSE gen1
          [] k = "user_id" -> HeaderGet(headers, "user-id")
          [] k = "span_id" -> IF Truthy(HeaderGet(headers, "span-id"))
                              THEN HeaderGet(headers, "span-id") ELSE gen2])

\* One request through TracingMiddleware.__call__ on the thread of unit u,
\* which WSGI runs from start to end on that thread: the scope is entered,
\* the application's view reads the three keys with LogContext.getcontext
\* (seen), the request is logged unless the application raised, and the scope
\* is exited.  The server calls the middleware outside any scope of the thread.
FlaskRequest(u, headers, gen, exc) ==
    /\ unitThread[u] # 0
    /\ stack[u] = <<>>
    /\ LET t == ThreadLocal(unitThread[u])
           cv == FlaskContext(headers, gen)
           pv == PreviousValues(ctx[t], cv)
           inside == EnterContext(ctx[t], cv)
           context == Merge(defaults, inside)
           r == IF exc THEN [lines |-> <<>>, raised |-> FALSE]
                ELSE HandleWith("root", INFO,
                                MakeRecord(INFO, D1("raw_uri", "/")), context)
           out == ExitContext(inside, pv, KeyOrder)
       IN /\ ctx' = [ctx EXCEPT ![t] = out.dict]
          /\ last' = << [op |-> "flask", unit |-> u, headers |-> headers,
                         exc |-> exc,
                         seen |-> [k \in TraceKeys |-> DictGet(context, k, None)],
                         lines |-> r.lines,
                         raised |-> r.raised \/ out.raised] >>
    /\ UNCHANGED <<defaults, stack, unitThread>>
    /\ UNCHANGED logVars

\* StarletteTracingMiddleware.dispatch of a request handled by task u, up to
\* "await call_next(request)": the scope is entered and log_request logs.
StarletteDispatch(u, headers, gen1, gen2) ==
    /\ stack[u] = <<>>
    /\ EnterScope(u, StarletteContext(headers, gen1, gen2))
    /\ LET t == ThreadLocal(unitThread[u])
           inside == EnterContext(ctx[t], StarletteContext(headers, gen1, gen2))
           r == HandleWith("root", INFO, MakeRecord(INFO, D1("query_params", "q")),
                           Merge(defaults, inside))
       IN last' = << [op |-> "starlette", unit |-> u, headers |-> headers,
                      generated |-> <<gen1, gen2>>, lines |-> r.lines,
                      raised |-> r.raised] >>

\* The endpoint of the request of task u, run by call_next on the loop's
\* thread: it reads the three keys with LogContext.getcontext.
Endpoint(u) ==
    /\ stack[u] # <<>>
    /\ last' = << [op |-> "endpoint", unit |-> u,
                   seen |-> [k \in TraceKeys |-> GetContextKey(unitThread[u], k)],
                   request |-> stack[u][1].cv] >>
    /\ UNCHANGED ctxVars
    /\ UNCHANGED logVars

\* The end of dispatch's with block for the request of task u:
\* log_exceptions.__exit__ logs the exception of the endpoint, if any, and
\* LogContext.__exit__ restores.
StarletteReturn(u, exc) ==
    /\ stack[u] # <<>>
    /\ LET t == ThreadLocal(unitThread[u])
           scope == stack[u][Len(stack[u])]
           logged == IF exc THEN LogException(u, "E0")
                     ELSE [lines |-> <<>>, raised |-> FALSE]
           r == ExitContext(ctx[t], scope.pv, KeyOrder)
       IN /\ ctx' = [ctx EXCEPT ![t] = r.dict]
          /\ stack' = [stack EXCEPT ![u] = SubSeq(@, 1, Len(@) - 1)]
          /\ last' = << [op |-> "starlette_exit", unit |-> u, exc |-> exc,
                         request |-> scope.cv,
                         lines |-> logged.lines, raised |-> r.raised] >>
    /\ UNCHANGED <<defaults, unitThread>>
    /\ UNCHANGED logVars

\* Faulty variant: "is not None" tests in place of the truth tests
OutboundHeadersNotNone(trace, user, span, gen) ==
    LET names == {"Span-Id"} \cup (IF trace # None THEN {"Trace-Id"} ELSE {})
                             \cup (IF user # None THEN {"User-Id"} ELSE {})
    IN [h \in names |->
           CASE h = "Trace-Id" -> trace
             [] h = "User-Id" -> user
             [] h = "Span-Id" -> IF span # None THEN span ELSE gen]

\* TracingAdapter.add_headers / on_request_start of the aiohttp TraceConfig:
\* the headers added to the outbound request, given the three values read
\* with LogContext.getcontext and the identifier generate_trace_id() gives.
OutboundHeaders(trace, user, span, gen) ==
    LET names == {"Span-Id"} \cup (IF Truthy(trace) THEN {"Trace-Id"} ELSE {})
                             \cup (IF Truthy(user) THEN {"User-Id"} ELSE {})
    IN [h \in names |->
           CASE h = "Trace-Id" -> trace
             [] h = "User-Id" -> user
             [] h = "Span-Id" -> IF Truthy(span) THEN span ELSE gen]

\* An outbound request of unit u through the TracingAdapter or an aiohttp
\* session with the trace config.
Outbound(u, gen) ==
    /\ unitThread[u] # 0
    /\ LET t == unitThread[u]
       IN last' = << [op |-> "outbound", unit |-> u, gen |-> gen,
                      headers |-> OutboundHeaders(GetContextKey(t, "trace_id"),
                                                  GetContextKey(t, "user_id"),
                                                  GetContextKey(t, "span_id"),
                                                  gen)] >>
    /\ UNCHANGED ctxVars
    /\ UNCHANGED logVars

\* ---------------------------------------------------------- setup_logging
Signals == {"SIGUSR1", "SIGUSR2"}

\* Faulty variant: the two levels the other way round
usr_signals_swapped(sig) == IF sig = "SIGUSR1" THEN DEBUG ELSE INFO

\* usr_signals of _loglevel_signal_handler
usr_signals(sig) == IF sig = "SIGUSR1" THEN INFO ELSE DEBUG

\* Signal handler values: the default and ignore dispositions, the
\* application's own callable, and the handle_usr_signal closure made by the
\* id-th call of setup_logging.
SIG_DFL == [kind |-> "SIG_DFL", id |-> 0]
SIG_IGN == [kind |-> "SIG_IGN", id |-> 0]
UserHandler == [kind |-> "callable", id |-> 0]
\* signal.getsignal gives None for a handler that was not installed from Python
NotFromPython == [kind |-> "None", id |-> 0]
handle_usr_signal(n) == [kind |-> "handle_usr_signal", id |-> n]

\* An environment variable that is not set.
Unset == "<unset>"

\* os.getenv(name, dflt)
GetEnv(value, dflt) == IF value = Unset THEN dflt ELSE value

\* str.lower(), over the tokens the runs use
Lower(s) ==
    CASE s = "TRUE" -> "true"
      [] s = "T" -> "t"
      [] s = "F" -> "f"
      [] s = "False" -> "false"
      [] OTHER -> s

\* The calls of setup_logging of the runs: the plaintext= argument with the
\* value of NIVACLOUD_PLAINTEXT_LOGS, the override= argument with the value of
\* NIVACLOUD_OVERRIDE_LOGGERS, and the value of GIT_COMMIT_ID.
PlaintextCalls ==
    { <<"None", Unset>>, <<"True", Unset>>, <<"False", "1">>, <<"None", "TRUE">> }
OverrideCalls ==
    { <<"None", Unset>>, <<"False", Unset>>, <<"None", "0">> }
CommitTokens == {Unset, "unknown", "d22b929"}

\* Faulty variant: plaintext only for the tokens that switch override on
ResolvePlaintextAllowList(arg, env) ==
    IF arg = "None"
    THEN Lower(GetEnv(env, "")) \in {"1", "true", "t"}
    ELSE arg = "True"

\* setup_logging's resolution of its plaintext argument
ResolvePlaintext(arg, env) ==
    IF arg = "None"
    THEN Lower(GetEnv(env, "")) \notin {"", "0", "false", "f"}
    ELSE arg = "True"

\* Faulty variant: an unset NIVACLOUD_OVERRIDE_LOGGERS read as the empty string
ResolveOverrideDefaultOff(arg, env) ==
    IF arg = "None"
    THEN Lower(GetEnv(env, "")) \in {"1", "true", "t"}
    ELSE arg = "True"

\* setup_logging's resolution of its override argument
ResolveOverride(arg, env) ==
    IF arg = "None"
    THEN Lower(GetEnv(env, "1")) \in {"1", "true", "t"}
    ELSE arg = "True"

\* Faulty variant: the seeding without the test for the placeholder
SeedDefaultsAnyToken(commit) ==
    IF GetEnv(commit, "") # ""
    THEN D1("git_commit_id", commit)
    ELSE EmptyDict

\* The default context after reset_defaults and the GIT_COMMIT_ID seeding.
SeedDefaults(commit) ==
    IF GetEnv(commit, "") # "" /\ commit # "unknown"
    THEN D1("git_commit_id", commit)
    ELSE EmptyDict

\* Faulty variant: the removal of every handler of the root logger, of
\* whatever class
RemoveEvery(hs, i) == <<>>

\* Faulty variant: setup_logging without the removal of the handler it installed
KeepExisting(hs, i) == hs

\* _remove_existing_stream_handlers: the loop walks root_logger.handlers by
\* position while removeHandler shortens that same list, so the position
\* after a removed handler is passed over.
RECURSIVE RemoveExisting(_, _)
RemoveExisting(hs, i) ==
    IF i > Len(hs) THEN hs
    ELSE IF hs[i] > 0
         THEN RemoveExisting(SubSeq(hs, 1, i - 1) \o SubSeq(hs, i + 1, Len(hs)), i + 1)
         ELSE RemoveExisting(hs, i + 1)

\* Faulty variant: _override_log_handlers that removes no handler
OverrideHandlersKeep(hs) == hs

\* _override_log_handlers on one logger's handler list: the loop walks a
\* copy, so every handler that is no _LogContextHandler goes.
RECURSIVE OverrideHandlers(_)
OverrideHandlers(hs) ==
    IF hs = <<>> THEN <<>>
    ELSE IF Head(hs) > 0
         THEN <<Head(hs)>> \o OverrideHandlers(Tail(hs))
         ELSE OverrideHandlers(Tail(hs))

\* A _LogContextHandler that was taken off the root logger is attached to
\* nothing any more: no record reaches it, and nothing reads its level.  The
\* model keeps such an object as Detached, whatever its kind and level were.
Detached == [kind |-> "detached", level |-> 0]

Attached(hs) == {hs[i] : i \in 1..Len(hs)} \ {0}

Collect(objs, hs) ==
    [i \in 1..Len(objs) |-> IF i \in Attached(hs) THEN objs[i] ELSE Detached]

\* Faulty variant: handle_usr_signal leaving the stream handler's level alone
KeepHandlerLevel(objs, n, level) == objs

\* Handler.setLevel(level) on the n-th handler object
SetHandlerLevel(objs, n, level) ==
    IF objs[n] = Detached THEN objs ELSE [objs EXCEPT ![n].level = level]

\* _loglevel_signal_handler: the handlers captured as previous_handlers
CapturePrevious ==
    [sig \in {s \in Signals : sigHandler[s] # SIG_DFL} |-> sigHandler[sig]]

\* Faulty variant: the hook installed by the plaintext setup as well
InstallExcepthookAlways(plaintext, hook) == "_global_exception_handler"

\* sys.excepthook after _setup_plaintext_logging, which does not assign it,
\* or after _setup_structured_logging, which does.
InstallExcepthook(plaintext, hook) ==
    IF plaintext THEN hook ELSE "_global_exception_handler"

\* setup_logging(min_level, plaintext, stream, override) under the given
\* environment.  The step's result names the call and what it found: the
\* default context, the named logger and the root logger's handlers.
Setup(min_level, plaintextArg, overrideArg, envPlain, envOverride, envCommit) ==
    /\ Len(stream_handlers) < MaxSetups
    /\ LET plaintext == ResolvePlaintext(plaintextArg, envPlain)
           override == ResolveOverride(overrideArg, envOverride)
           n == Len(stream_handlers) + 1
           installed == Append(RemoveExisting(rootHandlers, 1), n)
           attached == IF override THEN OverrideHandlers(installed) ELSE installed
       IN /\ defaults' = SeedDefaults(envCommit)
          /\ stream_handlers' =
                 Collect(Append(stream_handlers,
                                [kind |-> IF plaintext THEN "plaintext"
                                          ELSE "structured",
                                 level |-> min_level]),
                         attached)
          /\ rootHandlers' = attached
          /\ rootLevel' = min_level
          /\ excepthook' = InstallExcepthook(plaintext, excepthook)
          /\ child' = IF override THEN [propagate |-> TRUE, other |-> FALSE]
                      ELSE child
          /\ previous_handlers' = Append(previous_handlers, CapturePrevious)
          /\ sigHandler' = [sig \in Signals |-> handle_usr_signal(n)]
    /\ last' = << [op |-> "setup", min_level |-> min_level,
                   plaintext |-> plaintextArg, envPlain |-> envPlain,
                   override |-> overrideArg, envOverride |-> envOverride,
                   envCommit |-> envCommit,
                   was |-> [defaults |-> defaults, child |-> child,
                            rootHandlers |-> rootHandlers,
                            excepthook |-> excepthook]] >>
    /\ UNCHANGED <<ctx, stack, unitThread>>

\* Faulty variant: handle_usr_signal that sets the level and calls no previous
\* handler
RunHandlerNoChain(h, sig, st) ==
    IF h.kind = "handle_usr_signal"
    THEN [st EXCEPT !.handlers = SetHandlerLevel(@, h.id, usr_signals(sig)),
                    !.rootLevel = usr_signals(sig)]
    ELSE IF h.kind = "callable"
         THEN [st EXCEPT !.userRuns = @ + 1]
         ELSE st

\* The run of one signal handler value h for signal sig, from the state st
\* (the handlers' levels, the root level, and what the application's handler
\* saw).  handle_usr_signal sets the level on its loggers and then calls the
\* handler it captured, if any; calling SIG_IGN, which is no callable, raises
\* TypeError.
RECURSIVE RunHandler(_, _, _)
RunHandler(h, sig, st) ==
    CASE h.kind = "handle_usr_signal" ->
           LET level == usr_signals(sig)
               set == [st EXCEPT !.handlers = SetHandlerLevel(@, h.id, level),
                                 !.rootLevel = level]
               captured == previous_handlers[h.id]
           IN IF sig \in DOMAIN captured
              THEN RunHandler(captured[sig], sig, set)
              ELSE set
      [] h.kind = "callable" ->
           [st EXCEPT !.userRuns = @ + 1,
                      !.userSaw = Append(@, [root |-> st.rootLevel,
                                            sinks |-> {st.handlers[rootHandlers[j]].level :
                                                         j \in {i \in 1..Len(rootHandlers) :
                                                                  rootHandlers[i] > 0}}])]
      [] h.kind = "SIG_IGN" -> [st EXCEPT !.raised = TRUE]
      [] OTHER -> st

\* Delivery of SIGUSR1 or SIGUSR2 to the process (os.kill(os.getpid(), sig)).
\* Under SIG_DFL the signal ends the process, so there is no step to take;
\* under SIG_IGN at the process level nothing runs.
Signal(sig) ==
    /\ sigHandler[sig].kind \in {"handle_usr_signal", "callable"}
    /\ LET st0 == [handlers |-> stream_handlers, rootLevel |-> rootLevel,
                   userRuns |-> 0, userSaw |-> <<>>, raised |-> FALSE]
           st == RunHandler(sigHandler[sig], sig, st0)
       IN /\ stream_handlers' = st.handlers
          /\ rootLevel' = st.rootLevel
          /\ last' = << [op |-> "signal", sig |-> sig, userRuns |-> st.userRuns,
                         userSaw |-> st.userSaw, raised |-> st.raised] >>
    /\ UNCHANGED ctxVars
    /\ UNCHANGED <<previous_handlers, rootHandlers, child, sigHandler, excepthook>>

\* signal.signal(sig, h) by the application, or the installation of a handler
\* by an extension module, before the application calls setup_logging
InstallHandler(sig, h) ==
    /\ stream_handlers = <<>>
    /\ sigHandler[sig] = SIG_DFL
    /\ sigHandler' = [sigHandler EXCEPT ![sig] = h]
    /\ last' = <<>>
    /\ UNCHANGED ctxVars
    /\ UNCHANGED <<stream_handlers, previous_handlers, rootHandlers, rootLevel,
                   child, excepthook>>

\* --------------------------------------------------------- specifications
\* Spec: the context store and the renderers, in a process whose main thread
\* has called setup_logging(min_level=logging.INFO) once, in either mode, with
\* nothing set in the environment.
Init ==
    /\ ctx = [t \in Threads |-> EmptyDict]
    /\ defaults = EmptyDict
    /\ stack = [u \in Units |-> <<>>]
    /\ unitThread = [u \in Units |-> IF u = 1 THEN 1 ELSE 0]
    /\ \E kind \in {"structured", "plaintext"} :
          /\ stream_handlers = << [kind |-> kind, level |-> INFO] >>
          /\ excepthook = IF kind = "structured" THEN "_global_exception_handler"
                          ELSE "sys.__excepthook__"
    /\ previous_handlers = << EmptyDict >>
    /\ rootHandlers = <<1>>
    /\ rootLevel = INFO
    /\ child = [propagate |-> TRUE, other |-> FALSE]
    /\ sigHandler = [sig \in Signals |-> handle_usr_signal(1)]
    /\ last = <<>>

Next ==
    \/ \E u \in Units, cv \in ScopeInputs : Enter(u, cv)
    \/ \E u \in Units, exc \in BOOLEAN : Exit(u, exc)
    \/ \E u \in Units, e \in ExtrasInputs : Emit(u, "root", INFO, e)
    \/ \E d \in DefaultInputs : SetDefault(d[1], d[2])
    \/ ResetDefaults
    \/ StartThread

Spec == Init /\ [][Next]_vars

\* SpecAsync: the same process, with unit 2 an asyncio task of the main
\* thread's event loop.  The coroutines may await between any two of their
\* steps, so the steps of the two tasks interleave freely.
AsyncScopeInputs ==
    { D1("trace_id", "a"), D1("trace_id", "b"), D1("trace_id", None) }

NextAsync ==
    \/ \E u \in Units, cv \in AsyncScopeInputs : Enter(u, cv)
    \/ \E u \in Units, exc \in BOOLEAN : Exit(u, exc)
    \/ \E u \in Units : Emit(u, "root", INFO, EmptyDict)
    \/ CreateTask

SpecAsync == Init /\ [][NextAsync]_vars

\* SpecReentrant: threads whose code also enters a LogContext object that it
\* has entered already.
ReentrantScopeInputs ==
    { D1("foo", "a"), D1("trace_id", "b"), D2("trace_id", "a", "foo", "b") }

NextReentrant ==
    \/ \E u \in Units, cv \in ReentrantScopeInputs : Enter(u, cv)
    \/ \E u \in Units, i \in 1..MaxOpen : Reenter(u, i)
    \/ \E u \in Units, exc \in BOOLEAN : Exit(u, exc)
    \/ \E u \in Units : Emit(u, "root", INFO, EmptyDict)
    \/ StartThread

SpecReentrant == Init /\ [][NextReentrant]_vars

\* SpecSetup: setup_logging, the log-level signals and logging calls of the
\* main thread, from the start of the process.  The root logger starts at
\* logging.WARNING (30) with no handler or with one handler of another class;
\* the named logger starts as logging creates it or with propagate switched
\* off and a handler of its own.
InitSetup ==
    /\ ctx = [t \in Threads |-> EmptyDict]
    /\ defaults = EmptyDict
    /\ stack = [u \in Units |-> <<>>]
    /\ unitThread = [u \in Units |-> IF u = 1 THEN 1 ELSE 0]
    /\ stream_handlers = <<>>
    /\ previous_handlers = <<>>
    /\ rootHandlers \in {<<>>, <<0>>}
    /\ rootLevel = 30
    /\ child \in {[propagate |-> TRUE, other |-> FALSE],
                  [propagate |-> FALSE, other |-> TRUE]}
    /\ sigHandler = [sig \in Signals |-> SIG_DFL]
    /\ excepthook = "sys.__excepthook__"
    /\ last = <<>>

NextSetup ==
    \/ \E min_level \in MinLevels, p \in PlaintextCalls, o \in OverrideCalls,
          envCommit \in CommitTokens :
          Setup(min_level, p[1], o[1], p[2], o[2], envCommit)
    \/ \E sig \in Signals : Signal(sig)
    \/ \E sig \in Signals, h \in {UserHandler, SIG_IGN, NotFromPython} :
          InstallHandler(sig, h)
    \/ \E logger \in {"root", "child"}, levelno \in Levels :
          Emit(1, logger, levelno, EmptyDict)
    \/ Uncaught

SpecSetup == InitSetup /\ [][NextSetup]_vars

\* SpecEnv: setup_logging under the configurations of its environment, in a
\* process that also sets defaults, opens scopes and starts a thread.  A call
\* varies one of the three settings and leaves the other two unset.
PlaintextEnvCalls ==
    { <<"None", Unset>>, <<"None", "">>, <<"None", "1">>, <<"None", "TRUE">>,
      <<"None", "t">>, <<"None", "0">>, <<"None", "F">>, <<"None", "False">>,
      <<"None", "yes">>, <<"None", "2">>, <<"True", "0">>, <<"False", "1">> }
OverrideEnvCalls ==
    { <<"None", Unset>>, <<"None", "">>, <<"None", "1">>, <<"None", "TRUE">>,
      <<"None", "T">>, <<"None", "0">>, <<"None", "yes">>, <<"True", "0">>,
      <<"False", "1">> }
CommitEnvTokens == {Unset, "", "unknown", "d22b929"}

EnvCalls ==
    {<<p, <<"None", Unset>>, Unset>> : p \in PlaintextEnvCalls}
        \cup {<< <<"None", Unset>>, o, Unset>> : o \in OverrideEnvCalls}
        \cup {<< <<"None", Unset>>, <<"None", Unset>>, c>> : c \in CommitEnvTokens}

NextEnv ==
    \/ \E call \in EnvCalls :
          Setup(INFO, call[1][1], call[2][1], call[1][2], call[2][2], call[3])
    \/ \E d \in DefaultInputs : SetDefault(d[1], d[2])
    \/ StartThread
    \/ \E u \in Units : Enter(u, D1("trace_id", "b"))
    \/ \E u \in Units, exc \in BOOLEAN : Exit(u, exc)
    \/ \E u \in Units : Emit(u, "root", INFO, EmptyDict)

SpecEnv == InitSetup /\ [][NextEnv]_vars

\* SpecValues: threads that bind, and pass as extras, values of every kind
\* under the key data.
ScopeValues == {"o_thing", "o_mixed", "o_cycle", "a"}
ExtraValues == DOMAIN PyObjects

NextValues ==
    \/ \E u \in Units, v \in ScopeValues : Enter(u, D1("data", v))
    \/ \E u \in Units, exc \in BOOLEAN : Exit(u, exc)
    \/ \E u \in Units : Emit(u, "root", INFO, EmptyDict)
    \/ \E u \in Units, v \in ExtraValues : Emit(u, "root", INFO, D1("data", v))
    \/ StartThread

SpecValues == Init /\ [][NextValues]_vars

\* SpecCalls: threads that call the wrapped functions, from each other's
\* bodies as well, and log.
CallInputs ==
    { <<"login", [p \in {"host", "password"} |->
                     IF p = "host" THEN h ELSE "secret"]>> : h \in {"h", None} }
        \cup { <<"login", [p \in {"host", "user", "password"} |->
                             CASE p = "host" -> h
                               [] p = "user" -> "a"
                               [] p = "password" -> "secret"]>> : h \in {"h", None} }
        \cup { <<"lookup", [p \in {"self", "host"} |->
                              IF p = "self" THEN "obj" ELSE "b"]>>,
               <<"tagged", EmptyDict>> }

NextCalls ==
    \/ \E u \in Units, c \in CallInputs : Call(u, c[1], c[2])
    \/ \E u \in Units, exc \in BOOLEAN : Exit(u, exc)
    \/ \E u \in Units : Emit(u, "root", INFO, EmptyDict)
    \/ StartThread

SpecCalls == Init /\ [][NextCalls]_vars

\* SpecExceptions: threads that run blocks under log_exceptions, inside and
\* outside scopes.
NextExceptions ==
    \/ \E u \in Units : Enter(u, D1("trace_id", "b"))
    \/ \E u \in Units, exc \in BOOLEAN : Exit(u, exc)
    \/ \E u \in Units, suppress \in BOOLEAN, exc \in BOOLEAN :
          LogExceptionsExit(u, suppress, exc)
    \/ StartThread

SpecExceptions == Init /\ [][NextExceptions]_vars

\* SpecTrace: threads that serve Flask requests through the middleware and
\* open scopes of their own between requests.
HeaderInputs ==
    { [h \in S |-> CASE h = "trace-id" -> "123abc"
                     [] h = "user-id" -> "6"
                     [] h = "span-id" -> "456xyz"] :
          S \in SUBSET {"trace-id", "user-id", "span-id"} }

NextTrace ==
    \/ \E u \in Units, h \in HeaderInputs, gen \in GeneratedIds, exc \in BOOLEAN :
          FlaskRequest(u, h, gen, exc)
    \/ \E u \in Units : Enter(u, D1("foo", "a"))
    \/ \E u \in Units, exc \in BOOLEAN : Exit(u, exc)
    \/ StartThread

SpecTrace == Init /\ [][NextTrace]_vars

\* SpecOutbound: threads that make outbound requests inside and outside
\* scopes on the tracing keys.
TraceScopeInputs ==
    { D1("trace_id", "abc123"), D1("trace_id", ""), D1("user_id", "10"),
      D1("user_id", ""), D1("span_id", "s1"), D1("span_id", ""),
      D1("trace_id", None) }

NextOutbound ==
    \/ \E u \in Units, cv \in TraceScopeInputs : Enter(u, cv)
    \/ \E u \in Units, exc \in BOOLEAN : Exit(u, exc)
    \/ \E u \in Units, gen \in GeneratedIds : Outbound(u, gen)
    \/ StartThread

SpecOutbound == Init /\ [][NextOutbound]_vars

\* SpecStarlette: requests served through the Starlette middleware, each by a
\* task of the one event loop; the tasks interleave at their awaits.
StarletteHeaderInputs ==
    { EmptyDict, D1("trace-id", "123starlette"),
      D2("trace-id", "123starlette", "user-id", "3") }

NextStarlette ==
    \/ \E u \in Units, h \in StarletteHeaderInputs, gen1 \in GeneratedIds :
          \E gen2 \in GeneratedIds \ {gen1} : StarletteDispatch(u, h, gen1, gen2)
    \/ \E u \in Units : Endpoint(u)
    \/ \E u \in Units, exc \in BOOLEAN : StarletteReturn(u, exc)
    \/ CreateTask

SpecStarlette == Init /\ [][NextStarlette]_vars

\* SpecReaders: threads that open and close scopes, set defaults, read the
\* context and change the mappings they were given.
ReadKeys == {None, "trace_id", "foo"}

NextReaders ==
    \/ \E u \in Units, cv \in ScopeInputs : Enter(u, cv)
    \/ \E u \in Units, exc \in BOOLEAN : Exit(u, exc)
    \/ \E d \in DefaultInputs : SetDefault(d[1], d[2])
    \/ \E u \in Units, key \in ReadKeys : GetContext(u, key)
    \/ \E u \in Units, k \in {"trace_id", "foo"} : MutateResult(u, k, "z")
    \/ StartThread

SpecReaders == Init /\ [][NextReaders]_vars

\* ------------------------------------------------------------ properties
Started(u) == unitThread[u] # 0

\* No other unit runs on u's thread.
AloneOnThread(u) == \A w \in Units \ {u} : unitThread[w] # unitThread[u]

LastIs(op) == Len(last) = 1 /\ last[1].op = op

\* The keys bound by the scopes unit u has open, and the value the innermost
\* of those scopes gives to k.
BoundKeys(u) == UNION {DOMAIN stack[u][i].cv : i \in 1..Len(stack[u])}

Innermost(u, k) ==
    LET i == CHOOSE i \in 1..Len(stack[u]) :
                 /\ k \in DOMAIN stack[u][i].cv
                 /\ \A j \in (i + 1)..Len(stack[u]) : k \notin DOMAIN stack[u][j].cv
    IN stack[u][i].cv[k]

\* Some scope that unit u has open binds k to v.
OwnBinding(u, k, v) ==
    \E i \in 1..Len(stack[u]) :
        k \in DOMAIN stack[u][i].cv /\ stack[u][i].cv[k] = v

\* Names of the fields of a record that belong to the event itself.
NativeNames == RESERVED_ATTRS \cup NativeOut

\* The rendered line shows key k with value v: in the bracketed suffix of a
\* plaintext line, or as a top-level member of the JSON object.
Shows(line, k, v) ==
    \/ k \in DOMAIN line.extra /\ line.extra[k] = v
    \/ line.mode = "structured" /\ k \in NativeOut /\ line.native[k] = v

\* The event's own values of the native fields.
EventOwn(levelno) ==
    [f \in NativeOut |->
        CASE f = "message" -> "M0"
          [] f = "severity" -> LevelName(levelno)
          [] f = "filename" -> "F0"
          [] f = "lineno" -> "L0"
          [] f = "timestamp" -> "T0"
          [] f = "thread" -> "TID"
          [] f = "pid" -> "PID"]

\* The level of the stream handler installed by the latest setup_logging.
InstalledLevel == stream_handlers[Len(stream_handlers)].level

\* C1: in one thread, after the exit that matches an enter with keys K,
\* getcontext(k) returns for each k in K the value that was visible just
\* before the enter (the binding the thread had then, else the default, else
\* None), and a key that was not bound before the enter is absent again;
\* whether the body returned or raised.
C1_ExitRestores ==
    LastIs("exit") =>
        LET r == last[1]
            t == unitThread[r.unit]
        IN AloneOnThread(r.unit) =>
             \A k \in r.keys :
                 /\ GetContextKey(t, k) =
                        IF k \in DOMAIN r.before THEN r.before[k]
                        ELSE DictGet(defaults, k, None)
                 /\ k \notin DOMAIN r.before => k \notin DOMAIN ctx[ThreadLocal(t)]

\* C2: a unit that runs on a thread of its own sees, in getcontext() and in
\* every record it emits, only bindings of scopes it has open itself (beside
\* the defaults and the extras of the call), never a binding of another
\* thread; a thread that was just started sees none of its starter's.
C2_ThreadIsolation ==
    \A u \in Units :
        (Started(u) /\ AloneOnThread(u)) =>
            LET all == GetContextAll(unitThread[u])
                FromDefault(k, v) == k \in DOMAIN defaults /\ defaults[k] = v
            IN /\ \A k \in DOMAIN all :
                      OwnBinding(u, k, all[k]) \/ FromDefault(k, all[k])
               /\ (LastIs("log") /\ last[1].unit = u) =>
                      \A n \in 1..Len(last[1].lines) :
                          \A k \in DOMAIN last[1].lines[n].extra :
                              LET v == last[1].lines[n].extra[k]
                              IN \/ OwnBinding(u, k, v)
                                 \/ FromDefault(k, v)
                                 \/ (k \in DOMAIN last[1].extras /\ last[1].extras[k] = v)

\* C2's case: both threads have a scope open on trace_id, with different
\* values, and thread 2 has just emitted a record that carries its own.
C2_Witness ==
    /\ unitThread[1] = 1 /\ unitThread[2] = 2
    /\ OwnBinding(1, "trace_id", "a") /\ GetContextKey(1, "trace_id") = "a"
    /\ OwnBinding(2, "trace_id", "b")
    /\ LastIs("log") /\ last[1].unit = 2 /\ Len(last[1].lines) = 1
    /\ Shows(last[1].lines[1], "trace_id", "b")

\* C3: with nested scopes in one thread, every key bound by an open scope
\* resolves to the value of the innermost open scope that binds it (so a key
\* bound only by an outer scope keeps the outer value while the inner scope
\* is open), and a record emitted there carries those values.
C3_InnermostWins ==
    \A u \in Units :
        (Started(u) /\ AloneOnThread(u) /\ Len(stack[u]) >= 2) =>
            \A k \in BoundKeys(u) :
                /\ GetContextKey(unitThread[u], k) = Innermost(u, k)
                /\ (LastIs("log") /\ last[1].unit = u) =>
                       \A n \in 1..Len(last[1].lines) :
                           (k \notin DOMAIN last[1].extras /\ k \notin NativeNames) =>
                               Shows(last[1].lines[n], k, Innermost(u, k))

\* C4 as stated: when the extras and the current context share a key, the
\* rendered record shows the extras value for every key of the extras and the
\* context value for every other key of the context, in both renderers.
C4_ExtrasAndEveryContextKey ==
    LastIs("log") =>
        LET r == last[1]
            context == GetContextAll(unitThread[r.unit])
        IN (DOMAIN r.extras \cap DOMAIN context # {}) =>
             \A n \in 1..Len(r.lines) :
                 \A k \in DOMAIN context :
                     Shows(r.lines[n], k,
                           IF k \in DOMAIN r.extras THEN r.extras[k] ELSE context[k])

\* C4 as amended: the same, for the keys of the context that neither name a
\* native field of the record nor start with an underscore.
C4_ExtrasOverrideContext ==
    LastIs("log") =>
        LET r == last[1]
            context == GetContextAll(unitThread[r.unit])
        IN (DOMAIN r.extras \cap DOMAIN context # {}) =>
             \A n \in 1..Len(r.lines) :
                 \A k \in DOMAIN context :
                     (k \notin NativeNames /\ ~StartsWithUnderscore(k)) =>
                         Shows(r.lines[n], k,
                               IF k \in DOMAIN r.extras THEN r.extras[k]
                               ELSE context[k])

\* C4's case: a record logged with extra foo=x while the context binds foo
\* and trace_id; the line shows the extras' foo and the context's trace_id.
C4_Witness ==
    /\ LastIs("log") /\ Len(last[1].lines) = 1
    /\ last[1].extras = D1("foo", "x")
    /\ LET context == GetContextAll(unitThread[last[1].unit])
       IN /\ {"foo", "trace_id"} \subseteq DOMAIN context
          /\ context["foo"] # "x"
          /\ Shows(last[1].lines[1], "foo", "x")
          /\ Shows(last[1].lines[1], "trace_id", context["trace_id"])

\* C5: when the context binds a key named like a native field of the event,
\* every native field of the rendered record holds the event's own value, in
\* both renderers.
C5_NativeFieldsKept ==
    LastIs("log") =>
        LET r == last[1]
            context == GetContextAll(unitThread[r.unit])
        IN (DOMAIN context \cap NativeNames # {}) =>
             \A n \in 1..Len(r.lines) : r.lines[n].native = EventOwn(r.levelno)

\* C5's case: a record rendered while the context binds lineno and timestamp.
C5_Witness ==
    /\ LastIs("log") /\ Len(last[1].lines) = 1
    /\ LET context == GetContextAll(unitThread[last[1].unit])
       IN /\ {"lineno", "timestamp"} \subseteq DOMAIN context
          /\ context["lineno"] = "a"
    /\ last[1].lines[1].native["lineno"] = "L0"
    /\ last[1].lines[1].native["timestamp"] = "T0"

\* C6: getcontext() holds exactly the keys of the defaults and of the calling
\* thread's bindings, with the thread's value where it binds the key and the
\* default's otherwise; getcontext(key) is the thread's value, else the
\* default, else None.
C6_ScopedShadowsDefault ==
    \A u \in Units :
        Started(u) =>
            LET t == unitThread[u]
                local == ctx[t]
                all == GetContextAll(t)
            IN /\ DOMAIN all = DOMAIN defaults \cup DOMAIN local
               /\ \A k \in DOMAIN all :
                      all[k] = IF k \in DOMAIN local THEN local[k] ELSE defaults[k]
               /\ \A k \in Keys :
                      GetContextKey(t, k) =
                          IF k \in DOMAIN local THEN local[k]
                          ELSE IF k \in DOMAIN defaults THEN defaults[k]
                          ELSE None

\* C6's case: a default for trace_id, shadowed in thread 1 by a scope and
\* seen as it is by thread 2, which binds no trace_id; foo is in neither.
C6_Witness ==
    /\ unitThread[1] = 1 /\ unitThread[2] = 2
    /\ "trace_id" \in DOMAIN defaults /\ defaults["trace_id"] = "d"
    /\ OwnBinding(1, "trace_id", "a")
    /\ GetContextAll(1)["trace_id"] = "a"
    /\ stack[2] = <<>>
    /\ GetContextKey(2, "trace_id") = "d"
    /\ GetContextKey(2, "foo") = None

\* C7: after one or more setup_logging calls the root logger carries exactly
\* one _LogContextHandler, the one of the latest call, and an event logged on
\* the root logger is rendered once if its level passes, never more.
C7_OneSink ==
    stream_handlers # <<>> =>
        /\ Cardinality({i \in 1..Len(rootHandlers) : rootHandlers[i] > 0}) = 1
        /\ Attached(rootHandlers) = {Len(stream_handlers)}
        /\ (LastIs("log") /\ last[1].logger = "root") =>
               /\ Len(last[1].lines) <= 1
               /\ (last[1].levelno >= rootLevel /\ last[1].levelno >= InstalledLevel)
                      => Len(last[1].lines) = 1

\* C7's case: an event rendered once after the second setup_logging call.
C7_Witness ==
    /\ Len(stream_handlers) = 2
    /\ LastIs("log") /\ last[1].logger = "root"
    /\ Len(last[1].lines) = 1

\* C8: once setup_logging has run, a step that delivers SIGUSR2 leaves the
\* root logger and the installed stream handler at DEBUG, and one that
\* delivers SIGUSR1 leaves both at INFO; a logging step changes neither
\* level, finds both equal, and renders an event logged on the root logger if
\* and only if its severity is at or above that level.
C8_SignalSetsLevel ==
    [][ stream_handlers # <<>> =>
          /\ (Len(last') = 1 /\ last'[1].op = "signal") =>
                 LET level == IF last'[1].sig = "SIGUSR2" THEN DEBUG ELSE INFO
                 IN rootLevel' = level /\ InstalledLevel' = level
          /\ (Len(last') = 1 /\ last'[1].op = "log") =>
                 /\ rootLevel' = rootLevel
                 /\ stream_handlers' = stream_handlers
                 /\ InstalledLevel = rootLevel
                 /\ last'[1].logger = "root" =>
                        (Len(last'[1].lines) = 1 <=> last'[1].levelno >= rootLevel)
      ]_vars

\* C8's case: a DEBUG event is rendered; setup_logging is called with INFO or
\* ERROR only, so SIGUSR2 lowered the level.
C8_Witness ==
    /\ stream_handlers # <<>>
    /\ LastIs("log") /\ last[1].logger = "root"
    /\ last[1].levelno = DEBUG
    /\ Len(last[1].lines) = 1

\* C9: if the application's handler was installed for a signal before the
\* first setup_logging, each delivery of that signal after setup runs it
\* exactly once, after the root logger and the installed stream handler were
\* set to the signal's level, however many setup_logging calls were made.
C9_PreviousHandlerOnce ==
    (LastIs("signal") /\ stream_handlers # <<>>) =>
        LET sig == last[1].sig
            level == IF sig = "SIGUSR2" THEN DEBUG ELSE INFO
        IN (sig \in DOMAIN previous_handlers[1]
              /\ previous_handlers[1][sig] = UserHandler) =>
             /\ last[1].userRuns = 1
             /\ last[1].userSaw = << [root |-> level, sinks |-> {level}] >>
             /\ ~last[1].raised

\* C9's case: the application's SIGUSR2 handler ran once on a delivery made
\* after two setup_logging calls.
C9_Witness ==
    /\ Len(stream_handlers) = 2
    /\ LastIs("signal") /\ last[1].sig = "SIGUSR2"
    /\ "SIGUSR2" \in DOMAIN previous_handlers[1]
    /\ previous_handlers[1]["SIGUSR2"] = UserHandler
    /\ last[1].userRuns = 1

\* C10: a task inside a scope still gets the scope's bindings from
\* getcontext after it was suspended and resumed, whatever other tasks of the
\* same thread did in between.
C10_TaskKeepsBindings ==
    \A u \in Units :
        (Started(u) /\ stack[u] # <<>>) =>
            \A k \in BoundKeys(u) :
                GetContextKey(unitThread[u], k) = Innermost(u, k)

\* C11: tasks of one thread do not see each other's scopes.  The main
\* coroutine (unit 1) created the task (unit 2) and was given nothing of it:
\* for a key that unit 1 has not bound, getcontext on unit 1 never returns a
\* value that an open scope of unit 2 binds, and no record emitted by unit 1
\* carries it.
C11_TasksIsolated ==
    (unitThread[2] = unitThread[1] /\ stack[2] # <<>>) =>
        \A k \in BoundKeys(2) \ BoundKeys(1) :
            \A v \in {"a", "b"} :
                OwnBinding(2, k, v) =>
                    /\ GetContextKey(unitThread[1], k) # v
                    /\ k \notin DOMAIN GetContextAll(unitThread[1])
                          \/ GetContextAll(unitThread[1])[k] # v
                    /\ (LastIs("log") /\ last[1].unit = 1) =>
                           \A n \in 1..Len(last[1].lines) :
                               ~Shows(last[1].lines[n], k, v)

\* C12: once the two tasks of the thread have closed every scope they
\* opened, in whatever order, every key is back at its value from before
\* either entered: nothing was bound then, so the thread binds nothing.
C12_BothExitedRestores ==
    (unitThread[2] = unitThread[1] /\ stack[1] = <<>> /\ stack[2] = <<>>) =>
        ctx[ThreadLocal(unitThread[1])] = EmptyDict

\* C13: in one thread, with properly nested scopes, no exit raises.
C13_ExitNeverRaises ==
    (LastIs("exit") /\ AloneOnThread(last[1].unit)) => ~last[1].raised

\* C14: a LogContext object may be entered again while it is entered: after
\* the exit that closes the last open entry of an object that was entered
\* more than once, each of its keys is back at the value it had before that
\* entry (the first), and absent if it was absent then.
C14_ReentryRestores ==
    LastIs("exit") =>
        LET r == last[1]
            t == unitThread[r.unit]
        IN (r.reentered
              /\ \A j \in 1..Len(stack[r.unit]) : stack[r.unit][j].obj # r.obj) =>
             \A k \in r.keys :
                 IF k \in DOMAIN r.before
                 THEN k \in DOMAIN ctx[t] /\ ctx[t][k] = r.before[k]
                 ELSE k \notin DOMAIN ctx[t]

\* The handlers of a list that are no _LogContextHandler.
OtherHandlers(hs) == {i \in 1..Len(hs) : hs[i] = 0}

\* The setup_logging call r ran with override true.
RanWithOverride(r) == ResolveOverride(r.override, r.envOverride)

C16_NoOverrideFrame ==
    /\ (LastIs("setup") /\ ~RanWithOverride(last[1])) =>
           /\ child = last[1].was.child
           /\ Cardinality(OtherHandlers(rootHandlers))
                  = Cardinality(OtherHandlers(last[1].was.rootHandlers))
    /\ (LastIs("log") /\ last[1].logger = "child" /\ ~child.propagate) =>
           last[1].lines = <<>>

\* C16's case: after setup_logging, the named logger still has propagate
\* False, the root logger still has its handler of another class, and an
\* event at or above the level logged on the named logger was not rendered.
C16_Witness ==
    /\ stream_handlers # <<>>
    /\ ~child.propagate /\ child.other
    /\ OtherHandlers(rootHandlers) # {}
    /\ LastIs("log") /\ last[1].logger = "child"
    /\ last[1].levelno >= rootLevel
    /\ last[1].lines = <<>>

\* C20: an event logged right after setup_logging(min_level=L), on the root
\* logger or on the named logger while it propagates, is rendered (once) if
\* and only if its severity is at or above L, and produces no line below L;
\* setup_logging leaves the root logger and its sink at L, and a logging step
\* changes neither level, so the same holds for the events that follow until
\* a signal or another setup_logging changes the level.
C20_MinLevelFilters ==
    [][ /\ (Len(last') = 1 /\ last'[1].op = "setup") =>
               /\ rootLevel' = last'[1].min_level
               /\ InstalledLevel' = last'[1].min_level
        /\ (Len(last') = 1 /\ last'[1].op = "log") =>
               /\ rootLevel' = rootLevel
               /\ stream_handlers' = stream_handlers
        /\ (LastIs("setup") /\ Len(last') = 1 /\ last'[1].op = "log"
              /\ (last'[1].logger = "root" \/ child.propagate)) =>
               LET L == last[1].min_level
               IN /\ last'[1].levelno >= L => Len(last'[1].lines) = 1
                  /\ last'[1].levelno < L => last'[1].lines = <<>>
      ]_vars

\* C20's case: after setup_logging(min_level=ERROR) an INFO event on the root
\* logger produced no line (the signals only ever set INFO or DEBUG).
C20_Witness ==
    /\ stream_handlers # <<>>
    /\ rootLevel = ERROR /\ InstalledLevel = ERROR
    /\ LastIs("log") /\ last[1].logger = "root"
    /\ last[1].levelno = INFO
    /\ last[1].lines = <<>>

\* The kind of the stream handler installed by the latest setup_logging.
InstalledKind == stream_handlers[Len(stream_handlers)].kind

\* C17 as stated: without a plaintext argument, plaintext output is selected
\* if and only if NIVACLOUD_PLAINTEXT_LOGS is, in whatever case, one of 1,
\* true, t; an explicit argument decides whatever the environment holds.  The
\* sink installed, and the line it renders, are of the kind selected.
C17_PlaintextOnlyForTruthyTokens ==
    /\ LastIs("setup") =>
           LET r == last[1]
               selected == IF r.plaintext = "None"
                           THEN r.envPlain \in {"1", "TRUE", "t"}
                           ELSE r.plaintext = "True"
           IN InstalledKind = IF selected THEN "plaintext" ELSE "structured"
    /\ (LastIs("log") /\ stream_handlers # <<>>) =>
           \A n \in 1..Len(last[1].lines) : last[1].lines[n].mode = InstalledKind

\* C17 as amended: without a plaintext argument, structured output is
\* selected if and only if NIVACLOUD_PLAINTEXT_LOGS is unset, empty, or, in
\* whatever case, one of 0, false, f; every other value (1, true, t, but also
\* yes or 2) selects plaintext output; an explicit argument decides whatever
\* the environment holds.
C17_PlaintextUnlessFalsyToken ==
    /\ LastIs("setup") =>
           LET r == last[1]
               selected == IF r.plaintext = "None"
                           THEN r.envPlain \notin {Unset, "", "0", "F", "False"}
                           ELSE r.plaintext = "True"
           IN InstalledKind = IF selected THEN "plaintext" ELSE "structured"
    /\ (LastIs("log") /\ stream_handlers # <<>>) =>
           \A n \in 1..Len(last[1].lines) : last[1].lines[n].mode = InstalledKind

\* C17's case: setup_logging without a plaintext argument under
\* NIVACLOUD_PLAINTEXT_LOGS=yes has installed the plaintext sink.
C17_Witness ==
    /\ LastIs("setup")
    /\ last[1].plaintext = "None" /\ last[1].envPlain = "yes"
    /\ InstalledKind = "plaintext"

\* C18: without an override argument, the override runs if and only if
\* NIVACLOUD_OVERRIDE_LOGGERS is unset or, in whatever case, one of 1, true,
\* t; an explicit argument decides whatever the environment holds.  Seen on a
\* named logger that had propagate False and a handler of its own before the
\* call: the override, and nothing else, switches the one on and removes the
\* other.
C18_OverrideResolution ==
    (LastIs("setup") /\ ~last[1].was.child.propagate) =>
        LET r == last[1]
            enabled == IF r.override = "None"
                       THEN r.envOverride \in {Unset, "1", "TRUE", "T"}
                       ELSE r.override = "True"
        IN /\ child.propagate <=> enabled
           /\ child.other <=> ~enabled

\* C18's case: without an override argument and under
\* NIVACLOUD_OVERRIDE_LOGGERS=T, the call switched propagate on.
C18_Witness ==
    /\ LastIs("setup") /\ ~last[1].was.child.propagate
    /\ last[1].override = "None" /\ last[1].envOverride = "T"
    /\ child.propagate /\ ~child.other

\* C19: when setup_logging returns, the default context is {git_commit_id: v}
\* if GIT_COMMIT_ID is set to a value v that is neither empty nor "unknown",
\* and empty otherwise, whatever defaults were set before; and a default in
\* force is what getcontext returns, in every thread whose own context holds
\* no binding for the key.
C19_SetupSeedsDefaults ==
    /\ LastIs("setup") =>
           defaults = IF last[1].envCommit \in {Unset, "", "unknown"}
                      THEN EmptyDict
                      ELSE D1("git_commit_id", last[1].envCommit)
    /\ stream_handlers # <<>> =>
           \A u \in Units : \A k \in DOMAIN defaults :
               (Started(u) /\ k \notin DOMAIN ctx[unitThread[u]]) =>
                   /\ GetContextKey(unitThread[u], k) = defaults[k]
                   /\ GetContextAll(unitThread[u])[k] = defaults[k]

\* C19's case: setup_logging has run under GIT_COMMIT_ID=d22b929 in a process
\* where set_default had set trace_id; the defaults are now the commit id
\* alone, and thread 2, which binds nothing, gets it from getcontext.
C19_Witness ==
    /\ LastIs("setup") /\ last[1].envCommit = "d22b929"
    /\ last[1].was.defaults = D1("trace_id", "d")
    /\ defaults = D1("git_commit_id", "d22b929")
    /\ unitThread[2] = 2 /\ stack[2] = <<>>
    /\ GetContextKey(2, "git_commit_id") = "d22b929"
    /\ GetContextKey(2, "trace_id") = None

\* The value that a record logged now by unit u with the given extras has
\* under the key data, if it has one.
DataValue(u, extras) ==
    IF "data" \in DOMAIN extras THEN extras["data"]
    ELSE GetContextAll(unitThread[u])["data"]

HasData(u, extras) ==
    "data" \in DOMAIN extras \cup DOMAIN GetContextAll(unitThread[u])

\* C21: whatever value is bound in the context or passed as an extra under a
\* key, objects without a JSON representation, mappings whose keys are not
\* strings or are of mixed types, and structures that contain themselves
\* included, the logging call returns normally and the line of the record is
\* written with a field for that key.
C21_EveryValueRendered ==
    LastIs("log") =>
        LET r == last[1]
        IN HasData(r.unit, r.extras) =>
              /\ ~r.raised
              /\ Len(r.lines) = 1
              /\ "data" \in DOMAIN r.lines[1].extra

\* The texts that the tests expect for the values of PyObjects that can be
\* written: dates in ISO-8601, complex numbers as their real and imaginary
\* parts, other objects as their str(), inside sequences and mappings as well;
\* in the plaintext suffix the members of each mapping in the order of their keys.
ExpectedText(mode, v) ==
    LET time == JStr("2019-12-24T12:34:56")
        sample == JStr("<Sample object>")
        real == <<"real", JNum(12)>>
        imag == <<"imag", JNum(45)>>
        complex == IF mode = "plaintext" THEN JObject(<<imag, real>>)
                   ELSE JObject(<<real, imag>>)
        tupled == JArray(<< JStr("foo"), JObject(<< <<"complex", complex>> >>),
                            JNum(1) >>)
    IN CASE v = "o_time" -> time
         [] v = "o_complex" -> complex
         [] v = "o_instance" -> sample
         [] v = "o_thing" ->
               IF mode = "plaintext"
               THEN JObject(<< <<"instance", sample>>, <<"time", time>>,
                               <<"tupled", tupled>> >>)
               ELSE JObject(<< <<"time", time>>, <<"tupled", tupled>>,
                               <<"instance", sample>> >>)
         [] v = "o_intkeys" ->
               IF mode = "plaintext"
               THEN JObject(<< <<"1", JStr("y")>>, <<"2", JStr("x")>> >>)
               ELSE JObject(<< <<"2", JStr("x")>>, <<"1", JStr("y")>> >>)
         [] v = "o_mixed" ->
               JObject(<< <<"1", JStr("x")>>, <<"k", JStr("y")>> >>)

\* C22: in every line that is written, a date, datetime or time is its
\* ISO-8601 string, a complex number is an object with real and imag, any
\* other value without a JSON representation is its string form, the same for
\* the elements of sequences and the values of mappings, and in a plaintext
\* line the members of every mapping are in the order of their keys.
C22_Canonical ==
    LastIs("log") =>
        LET r == last[1]
        IN \A n \in 1..Len(r.lines) :
              (HasData(r.unit, r.extras)
                  /\ DataValue(r.unit, r.extras) \in DOMAIN PyObjects) =>
                  /\ "data" \in DOMAIN r.lines[n].extra
                  /\ r.lines[n].extra["data"] =
                        ExpectedText(r.lines[n].mode, DataValue(r.unit, r.extras))

\* A plaintext line was written for the mapping with a datetime, a tuple
\* holding a mapping with a complex number, and an instance, bound in a scope.
C22_Witness ==
    /\ LastIs("log")
    /\ last[1].extras = EmptyDict
    /\ Len(last[1].lines) = 1
    /\ last[1].lines[1].mode = "plaintext"
    /\ "data" \in DOMAIN ctx[unitThread[last[1].unit]]
    /\ ctx[unitThread[last[1].unit]]["data"] = "o_thing"

\* C23: after setup_logging returns, in plaintext mode as in structured mode,
\* sys.excepthook is the library's fallback handler, and that handler logs
\* each uncaught exception as one record at ERROR with the stack trace.
C23_HookInBothModes ==
    /\ LastIs("setup") => excepthook = "_global_exception_handler"
    /\ LastIs("uncaught") =>
          /\ Len(last[1].lines) >= 1
          /\ \A n \in 1..Len(last[1].lines) :
                /\ last[1].lines[n].native["severity"] = "ERROR"
                /\ last[1].lines[n].exc_info = "traceback"

\* C23 (amended): after setup_logging returns in structured mode,
\* sys.excepthook is the library's fallback handler; a setup_logging in
\* plaintext mode leaves sys.excepthook as it was before the call.  Whenever
\* the fallback handler is the hook, it logs each uncaught exception as a
\* record at ERROR with the stack trace, written once by each sink.
C23_HookAfterStructuredSetup ==
    /\ LastIs("setup") =>
          /\ InstalledKind = "structured" =>
                excepthook = "_global_exception_handler"
          /\ InstalledKind = "plaintext" =>
                excepthook = last[1].was.excepthook
    /\ (LastIs("uncaught") /\ last[1].hook = "_global_exception_handler") =>
          /\ Len(last[1].lines) >= 1
          /\ ~last[1].raised
          /\ \A n \in 1..Len(last[1].lines) :
                /\ last[1].lines[n].native["severity"] = "ERROR"
                /\ last[1].lines[n].native["message"] = "Uncaught exception E0"
                /\ last[1].lines[n].exc_info = "traceback"

\* An uncaught exception was logged by the fallback handler through a
\* structured sink.
C23_Witness ==
    /\ LastIs("uncaught")
    /\ last[1].hook = "_global_exception_handler"
    /\ Len(last[1].lines) = 1
    /\ last[1].lines[1].mode = "structured"
    /\ last[1].lines[1].exc_info = "traceback"

\* C24: a function wrapped by auto_context(n1, ..., nk) runs in a scope that
\* binds exactly the named parameters, defaults applied, to the values of the
\* call, and with no names every parameter except self; no other parameter
\* (password) is ever in the context; the bindings are gone once the function
\* has returned or raised.
C24_AutoContextBinds ==
    /\ \A u \in Units :
          (Started(u) /\ stack[u] # <<>>) =>
              LET top == stack[u][Len(stack[u])]
                  d == ctx[unitThread[u]]
              IN /\ \A k \in DOMAIN top.cv : k \in DOMAIN d /\ d[k] = top.cv[k]
                 /\ DOMAIN GetContextAll(unitThread[u]) \cap {"password", "self"} = {}
    /\ LastIs("call") =>
          LET c == last[1]
              top == stack[c.unit][Len(stack[c.unit])]
          IN /\ c.f = "login" =>
                   /\ DOMAIN top.cv = {"host", "user"}
                   /\ top.cv["host"] = c.passed["host"]
                   /\ top.cv["user"] = IF "user" \in DOMAIN c.passed
                                       THEN c.passed["user"] ELSE None
             /\ c.f = "lookup" =>
                   /\ DOMAIN top.cv = {"host"}
                   /\ top.cv["host"] = c.passed["host"]
    /\ \A u \in Units :
          (Started(u) /\ stack[u] = <<>>) =>
              DOMAIN ctx[unitThread[u]] \cap {"host", "user"} = {}

\* C25: each entry of a scope made by a with block, a wrapped function or a
\* request wrapper is undone by its one exit on every path out of the body,
\* so that once the scopes of a thread have all exited no binding is left for
\* the next call on that thread, and the exit raises nothing of its own: the
\* error of the body is what the caller sees.
C25_ScopesPaired ==
    /\ \A u \in Units :
          (Started(u) /\ stack[u] = <<>>) => ctx[unitThread[u]] = EmptyDict
    /\ LastIs("exit") => ~last[1].raised

\* C30: a body that raises under log_exceptions() has its exception logged
\* once, at ERROR with the traceback, and the exception goes on to the
\* caller; under log_exceptions(suppress=True) it is logged once and
\* swallowed; a body that does not raise produces no record.
C30_LoggedOnce ==
    LastIs("log_exceptions") =>
        LET r == last[1]
        IN /\ r.exc =>
                 /\ Len(r.lines) = 1
                 /\ r.lines[1].native["severity"] = "ERROR"
                 /\ r.lines[1].native["message"] = "E0"
                 /\ r.lines[1].exc_info = "traceback"
                 /\ r.propagates = ~r.suppress
           /\ ~r.exc => (r.lines = <<>> /\ ~r.propagates)

\* A body raised under log_exceptions(suppress=True) inside an open scope:
\* one line was written and nothing propagates.
C30_Witness ==
    /\ LastIs("log_exceptions")
    /\ last[1].exc
    /\ last[1].suppress
    /\ Len(last[1].lines) = 1
    /\ ~last[1].propagates
    /\ stack[last[1].unit] # <<>>

\* The bindings of the scopes in the given stack, the innermost winning.
RECURSIVE OpenBindings(_)
OpenBindings(scopes) ==
    IF scopes = <<>> THEN EmptyDict
    ELSE Merge(OpenBindings(SubSeq(scopes, 1, Len(scopes) - 1)),
               scopes[Len(scopes)].cv)

\* C26: the context merged into a record is read when the record is emitted:
\* on one thread it is exactly the bindings of the scopes open at that time,
\* the innermost winning, over the defaults of that time; a binding whose scope
\* has exited is in no later record, and a default set after a scope was
\* entered is in the record.
C26_ContextReadAtEmission ==
    LastIs("log") =>
        LET r == last[1]
            expected == Merge(defaults, OpenBindings(stack[r.unit]))
        IN (AloneOnThread(r.unit) /\ r.extras = EmptyDict) =>
              \A n \in 1..Len(r.lines) :
                  \A k \in {"trace_id", "foo"} :
                      /\ k \in DOMAIN expected <=> k \in DOMAIN r.lines[n].extra
                      /\ k \in DOMAIN expected =>
                            r.lines[n].extra[k] = expected[k]

\* The line shows key k with the value v, or does not have the key if v is
\* None.
ShowsOrAbsent(line, k, v) ==
    IF v = None THEN k \notin DOMAIN line.extra
    ELSE k \in DOMAIN line.extra /\ line.extra[k] = v

\* C27: a request through the Flask middleware has trace_id, span_id and
\* user_id bound to the values of its headers where it has them; without
\* headers a trace id is generated and bound, so that the view reads a
\* trace_id that is not None and the request's record carries the same one,
\* and user_id is unbound.
C27_FlaskBinds ==
    LastIs("flask") =>
        LET r == last[1]
            h == r.headers
        IN /\ "trace-id" \in DOMAIN h => r.seen["trace_id"] = h["trace-id"]
           /\ "span-id" \in DOMAIN h => r.seen["span_id"] = h["span-id"]
           /\ "user-id" \in DOMAIN h => r.seen["user_id"] = h["user-id"]
           /\ "user-id" \notin DOMAIN h => r.seen["user_id"] = None
           /\ "trace-id" \notin DOMAIN h =>
                 /\ r.seen["trace_id"] # None
                 /\ \A n \in 1..Len(r.lines) :
                       ShowsOrAbsent(r.lines[n], "trace_id", r.seen["trace_id"])

\* C28: a request through the Starlette middleware has trace_id and span_id
\* bound to its header values where it has them and to new identifiers where
\* not, and user_id only if it has the header; what the endpoint reads with
\* getcontext is what the request's record carries.
C28_StarletteBinds ==
    /\ LastIs("starlette") =>
          LET r == last[1]
              h == r.headers
          IN /\ Len(r.lines) = 1
             /\ ShowsOrAbsent(r.lines[1], "trace_id",
                    IF "trace-id" \in DOMAIN h THEN h["trace-id"]
                    ELSE r.generated[1])
             /\ ShowsOrAbsent(r.lines[1], "span_id",
                    IF "span-id" \in DOMAIN h THEN h["span-id"]
                    ELSE r.generated[2])
             /\ ShowsOrAbsent(r.lines[1], "user_id", HeaderGet(h, "user-id"))
             /\ \A k \in TraceKeys :
                    ShowsOrAbsent(r.lines[1], k,
                                  DictGet(stack[r.unit][1].cv, k, None))
    /\ LastIs("endpoint") =>
          \A k \in TraceKeys :
              last[1].seen[k] = DictGet(last[1].request, k, None)

\* The value that LogContext.getcontext(k) gives unit u now.
Current(u, k) == DictGet(Merge(defaults, ctx[unitThread[u]]), k, None)

C33_SignalNeverRaises ==
    (LastIs("signal") /\ sigHandler[last[1].sig].kind = "handle_usr_signal") =>
        /\ ~last[1].raised
        /\ rootLevel = usr_signals(last[1].sig)

\* C31: an event that the root logger and its sink admit leaves a line with
\* the event's message and severity on the sink's stream, also when a value
\* of the context or of the extras cannot be written.
C31_MessageReachesStream ==
    (LastIs("log") /\ last[1].levelno >= rootLevel
                   /\ \E i \in 1..Len(rootHandlers) :
                         /\ rootHandlers[i] > 0
                         /\ last[1].levelno >= stream_handlers[rootHandlers[i]].level) =>
        \E n \in 1..Len(last[1].lines) :
            /\ last[1].lines[n].native["message"] = "M0"
            /\ last[1].lines[n].native["severity"] = LevelName(last[1].levelno)

\* C32: a call of LogContext.getcontext, with or without a key, changes no
\* thread's bindings, no scope and no default, and after the caller has
\* changed the mapping it was given the next call returns what the first
\* one returned.
C32_PureReader ==
    [][(Len(last') = 1 /\ last'[1].op \in {"getcontext", "mutated"}) =>
          /\ ctx' = ctx
          /\ defaults' = defaults
          /\ stack' = stack
          /\ last'[1].op = "mutated" => last'[1].second = last'[1].first]_vars

C32_Witness ==
    /\ LastIs("mutated")
    /\ last[1].key \in DOMAIN ctx[unitThread[last[1].unit]]
    /\ defaults # EmptyDict
    /\ \E t \in Threads : t # unitThread[last[1].unit] /\ ctx[t] # EmptyDict

\* C34: when the endpoint of a request raises, the record of the exception
\* is written at the end of dispatch's with block with the bindings of the
\* request's own scope: its trace_id, span_id and user_id.
C34_ExceptionCarriesScope ==
    (LastIs("starlette_exit") /\ last[1].exc) =>
        /\ Len(last[1].lines) = 1
        /\ \A k \in DOMAIN last[1].request :
              Shows(last[1].lines[1], k, last[1].request[k])

\* C35: a step that opens or closes a scope of unit u with keys K leaves the
\* defaults, the bindings of every other thread and, on u's thread, the
\* binding of every key outside K as they were.
C35_OnlyOwnKeys ==
    [][\A u \in Units :
          stack'[u] # stack[u] =>
             LET t == unitThread[u]
                 K == IF Len(stack'[u]) > Len(stack[u])
                      THEN DOMAIN stack'[u][Len(stack'[u])].cv
                      ELSE DOMAIN stack[u][Len(stack[u])].cv
             IN /\ defaults' = defaults
                /\ \A o \in Threads \ {t} : ctx'[o] = ctx[o]
                /\ \A k \in Keys \ K :
                      /\ (k \in DOMAIN ctx'[t]) = (k \in DOMAIN ctx[t])
                      /\ k \in DOMAIN ctx[t] => ctx'[t][k] = ctx[t][k]]_vars

C35_Witness ==
    /\ LastIs("exit")
    /\ \E k \in DOMAIN ctx[unitThread[last[1].unit]] : k \notin last[1].keys
    /\ defaults # EmptyDict
    /\ \A u \in Units : Started(u)

\* C36: once setup_logging has run, after every setup_logging call and every
\* delivery of SIGUSR1 or SIGUSR2 the sink attached to the root logger has
\* the root logger's level, and that level is the one the latest of these
\* operations set: min_level for a call, INFO for SIGUSR1, DEBUG for SIGUSR2.
C36_LevelsAgree ==
    stream_handlers # <<>> =>
        /\ \A i \in 1..Len(rootHandlers) :
              rootHandlers[i] > 0 =>
                  stream_handlers[rootHandlers[i]].level = rootLevel
        /\ LastIs("setup") => rootLevel = last[1].min_level
        /\ (LastIs("signal") /\ last[1].sig = "SIGUSR1") => rootLevel = INFO
        /\ (LastIs("signal") /\ last[1].sig = "SIGUSR2") => rootLevel = DEBUG

\* C36's case: SIGUSR2 delivered after two setup_logging calls, with the
\* second call's sink set to DEBUG.
C36_Witness ==
    /\ Len(stream_handlers) = 2
    /\ LastIs("signal") /\ last[1].sig = "SIGUSR2"
    /\ InstalledLevel = DEBUG
    /\ Attached(rootHandlers) = {2}

====
